---- MODULE Spec2Model ----
(***************************************************************************)
(* Andon board client (src/src/App.jsx): the React component's state, its  *)
(* socket handlers, its HTTP requests and the board it renders.            *)
(***************************************************************************)
EXTENDS Integers, Sequences, FiniteSets, TLC

VARIABLES
    reports,            \* useState([]) : the report store, an array of reports
    remark,             \* useState("") : the remark input of the form
    showModal,          \* useState(false)
    selectedReportId,   \* useState(null)
    snapshot,           \* GET /reports : "pending", "loaded" or "failed"
    subscribed,         \* socket listeners registered (socket.on .. socket.off)
    submitPending,      \* number of POST /report requests in flight
    resolvePending,     \* ids of the POST /resolve/<id> requests in flight
    lastEvent,          \* the handler that ran last, with its argument
    cells,              \* the dashboard as last rendered
    diffInSeconds,      \* timeAgo: the elapsed seconds it was given
    ageLabel            \* timeAgo: the label it returned

vars == <<reports, remark, showModal, selectedReportId, snapshot, subscribed,
          submitPending, resolvePending, lastEvent, cells, diffInSeconds,
          ageLabel>>

\* what a render writes; the handlers leave it alone
renderVars == <<cells, diffInSeconds, ageLabel>>

\* ---------------------------------------------------------------- bounds
MaxSnapshot == 2          \* longest list GET /reports answers with
MaxSubmitInFlight == 1    \* POST /report requests in flight at once
MaxResolveInFlight == 1   \* POST /resolve requests in flight at once

\* ---------------------------------------------------------------- values
NULL == "null"

Ids == {"r1", "r2"}

Status == {"red", "yellow", "green"}

Remarks == {"", "jam"}

\* Object.keys(productionAreas), in declaration order
Loops == <<"Loop 1", "Loop 2", "Loop 3", "Loop 4", "Quality", "Planning">>

productionAreas ==
    [loop \in {Loops[i] : i \in 1..Len(Loops)} |->
        CASE loop = "Loop 1"   -> <<"A&T", "TMA", "SUBA/CONA">>
          [] loop = "Loop 2"   -> <<"BSA SOFT", "BSA HARD", "EDM LASER", "FIT/NULL">>
          [] loop = "Loop 3"   -> <<"SBC MACH", "SBC DEBUR">>
          [] loop = "Loop 4"   -> <<"SB", "GMC">>
          [] loop = "Quality"  -> <<"RI", "ZEISS">>
          [] loop = "Planning" -> <<"STOCKROOM", "SHIPPING">>]

\* the stations the server's reports are about in this model
Stations == {<<"Loop 1", "A&T">>, <<"Loop 2", "FIT/NULL">>}

\* what a report carries besides its id and its station
Payloads ==
    { [status |-> "red",    remark |-> "jam", timestamp |-> "t1"],
      [status |-> "yellow", remark |-> "",    timestamp |-> "t1"],
      [status |-> "green",  remark |-> "",    timestamp |-> NULL] }

\* the reports the server sends: in the snapshot, in a newReport push and in
\* the answer to POST /report
InReports ==
    { [_id |-> id, loop |-> k[1], section |-> k[2], status |-> p.status,
       assigned |-> "John Doe", remark |-> p.remark, timestamp |-> p.timestamp] :
         id \in Ids, k \in Stations, p \in Payloads }

SeqsUpTo(S, n) == UNION { [1..m -> S] : m \in 0..n }

SnapshotLists == SeqsUpTo(InReports, MaxSnapshot)

NoReport == [_id |-> NULL]

Event(type, id, data) == [type |-> type, id |-> id, data |-> data]

\* ------------------------------------------------------- store operations
\* Array.prototype.some(r => r._id === id)
HasId(prev, id) == \E i \in 1..Len(prev) : prev[i]._id = id

\* OnNewReport without the lookup by id: every report is appended
OnNewReportAppend(prev, newReport) == Append(prev, newReport)

\* socket.on("newReport"): the updater given to setReports
OnNewReport(prev, newReport) ==
    LET updatedReports ==
            [i \in 1..Len(prev) |->
                IF prev[i]._id = newReport._id THEN newReport ELSE prev[i]]
    IN  IF HasId(updatedReports, newReport._id)
        THEN updatedReports
        ELSE Append(updatedReports, newReport)

\* OnResolveReport without the test on the id: every entry is resolved
OnResolveReportAll(prev, id) ==
    [i \in 1..Len(prev) |->
        [prev[i] EXCEPT !.status = "green", !.remark = "", !.timestamp = NULL]]

\* OnResolveReport that removes the resolved entries
OnResolveReportDelete(prev, id) == SelectSeq(prev, LAMBDA r : r._id # id)

\* OnResolveReport that forgets to clear the remark
OnResolveReportKeepRemark(prev, id) ==
    [i \in 1..Len(prev) |->
        IF prev[i]._id = id
        THEN [prev[i] EXCEPT !.status = "green", !.timestamp = NULL]
        ELSE prev[i]]

\* socket.on("resolveReport"): the updater given to setReports
OnResolveReport(prev, id) ==
    [i \in 1..Len(prev) |->
        IF prev[i]._id = id
        THEN [prev[i] EXCEPT !.status = "green", !.remark = "", !.timestamp = NULL]
        ELSE prev[i]]

\* OnSubmitAck without the filter on the id
OnSubmitAckAppend(prev, data) == Append(prev, data)

\* sendReport's .then: the updater given to setReports
OnSubmitAck(prev, data) ==
    Append(SelectSeq(prev, LAMBDA r : r._id # data._id), data)

\* OnSubmitError that rolls the newest entry back
OnSubmitErrorRollback(prev) ==
    IF Len(prev) = 0 THEN prev ELSE SubSeq(prev, 1, Len(prev) - 1)

\* sendReport's .catch: console.error only, the store is not touched
OnSubmitError(prev) == prev

\* the snapshot's .then: setReports(data)
OnSnapshot(prev, data) == data

\* ---------------------------------------------------------------- render
\* reports.find(r => r.loop === loop && r.section === section)
Find(store, loop, section) ==
    LET hits == {i \in 1..Len(store) :
                    store[i].loop = loop /\ store[i].section = section}
    IN  IF hits = {} THEN NoReport
        ELSE store[CHOOSE i \in hits : \A j \in hits : i <= j]

\* one grid-item of the dashboard
Cell(store, loop, section) ==
    LET report == Find(store, loop, section)
        active == report # NoReport /\ report.status # "green"
    IN  [loop      |-> loop,
         section   |-> section,
         status    |-> IF report # NoReport THEN report.status ELSE "green",
         remark    |-> IF active /\ report.remark # "" THEN report.remark ELSE "",
         timestamp |-> IF active /\ report.timestamp # NULL
                       THEN report.timestamp ELSE NULL,
         resolveId |-> IF active THEN report._id ELSE NULL]

\* Project that renders only the stations that have a report
ProjectReported(store) ==
    [g \in 1..Len(Loops) |->
        SelectSeq([s \in 1..Len(productionAreas[Loops[g]]) |->
                      Cell(store, Loops[g], productionAreas[Loops[g]][s])],
                  LAMBDA c : Find(store, c.loop, c.section) # NoReport)]

\* the dashboard: per loop, in declaration order, its sections' cells in order
Project(store) ==
    [g \in 1..Len(Loops) |->
        [s \in 1..Len(productionAreas[Loops[g]]) |->
            Cell(store, Loops[g], productionAreas[Loops[g]][s])]]

\* the ids with a Resolve button on the board (onClick confirmResolve(report._id))
ResolveButtons(store) ==
    UNION { { Cell(store, Loops[g], productionAreas[Loops[g]][s]).resolveId :
                s \in 1..Len(productionAreas[Loops[g]]) } :
            g \in 1..Len(Loops) } \ {NULL}

\* what the component renders of its state: the dashboard and the modal
Render(store, show) == [dashboard |-> Project(store), modal |-> show]

\* ------------------------------------------------------ confirmation modal
Modal(show, id) == [showModal |-> show, selectedReportId |-> id]

\* confirmResolve(id): setSelectedReportId(id); setShowModal(true)
OnConfirmResolve(modal, id) == Modal(TRUE, id)

\* OnCancel that leaves the modal open
OnCancelNoop(modal) == modal

\* the modal's Cancel button: setShowModal(false)
OnCancel(modal) == [modal EXCEPT !.showModal = FALSE]

\* resolveReport after the awaited POST: setShowModal(false); setSelectedReportId(null)
OnResolveOk(modal) == Modal(FALSE, NULL)

\* OnResolveError that closes the modal as the success path does
OnResolveErrorClose(modal) == Modal(FALSE, NULL)

\* resolveReport's catch: console.error only
OnResolveError(modal) == modal

\* ------------------------------------------------------------------- Init
Init ==
    /\ reports = <<>>
    /\ remark = ""
    /\ showModal = FALSE
    /\ selectedReportId = NULL
    /\ snapshot = "pending"
    /\ subscribed = TRUE
    /\ submitPending = 0
    /\ resolvePending = [id \in Ids |-> 0]
    /\ lastEvent = Event("mount", NULL, NoReport)
    /\ cells = <<>>
    /\ diffInSeconds = 0
    /\ ageLabel = <<>>

\* ---------------------------------------------------------------- actions
\* axios.get(/reports).then(({ data }) => setReports(data))
SnapshotLoaded ==
    /\ snapshot = "pending"
    /\ \E data \in SnapshotLists :
          /\ reports' = OnSnapshot(reports, data)
          /\ lastEvent' = Event("snapshot", NULL, data)
    /\ snapshot' = "loaded"
    /\ UNCHANGED renderVars
    /\ UNCHANGED <<remark, showModal, selectedReportId, subscribed,
                   submitPending, resolvePending>>

\* the GET is rejected: there is no .catch, no state is set
SnapshotFailed ==
    /\ snapshot = "pending"
    /\ snapshot' = "failed"
    /\ lastEvent' = Event("snapshotFailed", NULL, NoReport)
    /\ UNCHANGED renderVars
    /\ UNCHANGED <<reports, remark, showModal, selectedReportId, subscribed,
                   submitPending, resolvePending>>

\* NewReportPush whose listener the cleanup did not remove
NewReportPushAlways ==
    /\ \E newReport \in InReports :
          /\ reports' = OnNewReport(reports, newReport)
          /\ lastEvent' = Event("newReport", newReport._id, newReport)
    /\ UNCHANGED renderVars
    /\ UNCHANGED <<remark, showModal, selectedReportId, snapshot, subscribed,
                   submitPending, resolvePending>>

\* socket.on("newReport", ...)
NewReportPush ==
    /\ subscribed
    /\ \E newReport \in InReports :
          /\ reports' = OnNewReport(reports, newReport)
          /\ lastEvent' = Event("newReport", newReport._id, newReport)
    /\ UNCHANGED renderVars
    /\ UNCHANGED <<remark, showModal, selectedReportId, snapshot, subscribed,
                   submitPending, resolvePending>>

\* socket.on("resolveReport", ...)
ResolveReportPush ==
    /\ subscribed
    /\ \E id \in Ids :
          /\ reports' = OnResolveReport(reports, id)
          /\ lastEvent' = Event("resolveReport", id, NoReport)
    /\ UNCHANGED renderVars
    /\ UNCHANGED <<remark, showModal, selectedReportId, snapshot, subscribed,
                   submitPending, resolvePending>>

\* the remark input's onChange
SetRemark ==
    /\ subscribed      \* the component is mounted
    /\ \E text \in Remarks : remark' = text
    /\ lastEvent' = Event("setRemark", NULL, NoReport)
    /\ UNCHANGED renderVars
    /\ UNCHANGED <<reports, showModal, selectedReportId, snapshot, subscribed,
                   submitPending, resolvePending>>

\* sendReport(status) up to the POST: the body goes to the server, which
\* answers with a report of its own making
SendReport ==
    /\ subscribed      \* the component is mounted
    /\ submitPending < MaxSubmitInFlight
    /\ \E status \in Status :
          lastEvent' = Event("sendReport", NULL, NoReport)
    /\ submitPending' = submitPending + 1
    /\ UNCHANGED renderVars
    /\ UNCHANGED <<reports, remark, showModal, selectedReportId, snapshot,
                   subscribed, resolvePending>>

\* sendReport's .then
SubmitAck ==
    /\ submitPending > 0
    /\ \E data \in InReports :
          /\ reports' = OnSubmitAck(reports, data)
          /\ lastEvent' = Event("submitAck", data._id, data)
    /\ remark' = ""
    /\ submitPending' = submitPending - 1
    /\ UNCHANGED renderVars
    /\ UNCHANGED <<showModal, selectedReportId, snapshot, subscribed,
                   resolvePending>>

\* sendReport's .catch
SubmitFail ==
    /\ submitPending > 0
    /\ reports' = OnSubmitError(reports)
    /\ submitPending' = submitPending - 1
    /\ lastEvent' = Event("submitFail", NULL, NoReport)
    /\ UNCHANGED renderVars
    /\ UNCHANGED <<remark, showModal, selectedReportId, snapshot, subscribed,
                   resolvePending>>

\* a cell's Resolve button: confirmResolve(report._id)
ConfirmResolve ==
    /\ subscribed      \* the component is mounted
    /\ \E id \in ResolveButtons(reports) :
          LET m == OnConfirmResolve(Modal(showModal, selectedReportId), id)
          IN  /\ showModal' = m.showModal
              /\ selectedReportId' = m.selectedReportId
              /\ lastEvent' = Event("confirmResolve", id, NoReport)
    /\ UNCHANGED renderVars
    /\ UNCHANGED <<reports, remark, snapshot, subscribed, submitPending,
                   resolvePending>>

\* the modal's Cancel button
CancelResolve ==
    /\ subscribed      \* the component is mounted
    /\ showModal
    /\ LET m == OnCancel(Modal(showModal, selectedReportId))
       IN  /\ showModal' = m.showModal
           /\ selectedReportId' = m.selectedReportId
    /\ lastEvent' = Event("cancelResolve", selectedReportId, NoReport)
    /\ UNCHANGED renderVars
    /\ UNCHANGED <<reports, remark, snapshot, subscribed, submitPending,
                   resolvePending>>

ResolveInFlight == resolvePending["r1"] + resolvePending["r2"]

\* the modal's Yes button: resolveReport up to the awaited POST
ResolveSend ==
    /\ subscribed      \* the component is mounted
    /\ showModal
    /\ ResolveInFlight < MaxResolveInFlight
    /\ IF selectedReportId = NULL
       THEN UNCHANGED resolvePending
       ELSE resolvePending' =
              [resolvePending EXCEPT ![selectedReportId] = @ + 1]
    /\ lastEvent' = Event("resolveSend", selectedReportId, NoReport)
    /\ UNCHANGED renderVars
    /\ UNCHANGED <<reports, remark, showModal, selectedReportId, snapshot,
                   subscribed, submitPending>>

\* resolveReport after the await resolved
ResolveAck ==
    /\ \E id \in Ids :
          /\ resolvePending[id] > 0
          /\ resolvePending' = [resolvePending EXCEPT ![id] = @ - 1]
          /\ lastEvent' = Event("resolveAck", id, NoReport)
    /\ LET m == OnResolveOk(Modal(showModal, selectedReportId))
       IN  /\ showModal' = m.showModal
           /\ selectedReportId' = m.selectedReportId
    /\ UNCHANGED renderVars
    /\ UNCHANGED <<reports, remark, snapshot, subscribed, submitPending>>

\* resolveReport's catch
ResolveFail ==
    /\ \E id \in Ids :
          /\ resolvePending[id] > 0
          /\ resolvePending' = [resolvePending EXCEPT ![id] = @ - 1]
          /\ lastEvent' = Event("resolveFail", id, NoReport)
    /\ LET m == OnResolveError(Modal(showModal, selectedReportId))
       IN  /\ showModal' = m.showModal
           /\ selectedReportId' = m.selectedReportId
    /\ UNCHANGED renderVars
    /\ UNCHANGED <<reports, remark, snapshot, subscribed, submitPending>>

\* the unmount of the component: the effect's cleanup runs,
\* socket.off("newReport"); socket.off("resolveReport")
Unmount ==
    /\ subscribed
    /\ subscribed' = FALSE
    /\ lastEvent' = Event("unmount", NULL, NoReport)
    /\ UNCHANGED renderVars
    /\ UNCHANGED <<reports, remark, showModal, selectedReportId, snapshot,
                   submitPending, resolvePending>>

\* --------------------------------------------------------- specifications
\* the reconciliation of the store: snapshot, pushes and submits
NextStore ==
    \/ SnapshotLoaded
    \/ SnapshotFailed
    \/ NewReportPush
    \/ ResolveReportPush
    \/ SetRemark
    \/ SendReport
    \/ SubmitAck
    \/ SubmitFail

SpecStore == Init /\ [][NextStore]_vars

\* the resolve confirmation, over a store fed by pushes
NextResolve ==
    \/ NewReportPush
    \/ ResolveReportPush
    \/ ConfirmResolve
    \/ CancelResolve
    \/ ResolveSend
    \/ ResolveAck
    \/ ResolveFail

SpecResolve == Init /\ [][NextResolve]_vars

Next ==
    \/ NextStore
    \/ ConfirmResolve
    \/ CancelResolve
    \/ ResolveSend
    \/ ResolveAck
    \/ ResolveFail
    \/ Unmount

Spec == Init /\ [][Next]_vars

TypeOK ==
    /\ \A i \in 1..Len(reports) : reports[i]._id \in Ids
    /\ remark \in Remarks
    /\ showModal \in BOOLEAN
    /\ selectedReportId \in Ids \cup {NULL}
    /\ snapshot \in {"pending", "loaded", "failed"}
    /\ submitPending \in 0..MaxSubmitInFlight

\* ----------------------------------------------------------------- claims
Range(s) == { s[i] : i \in 1..Len(s) }

SameKey(a, b) == a.loop = b.loop /\ a.section = b.section

NoDupKeys(store) ==
    \A i, j \in 1..Len(store) : i # j => ~SameKey(store[i], store[j])

CountId(store, id) == Cardinality({ i \in 1..Len(store) : store[i]._id = id })

\* C1: as long as the store has only been fed, from empty, by newReport
\* pushes and submit acknowledgments (the snapshot has not replaced it), no
\* two entries of the store have the same (loop, section).
C1_DedupInvariant == snapshot = "pending" => NoDupKeys(reports)

\* C2: in every reachable store, for every report R, applying the newReport
\* event R twice gives the same store as applying it once.
C2_UpsertIdempotent ==
    \A R \in InReports :
        OnNewReport(OnNewReport(reports, R), R) = OnNewReport(reports, R)

\* a newReport has replaced, in place, an entry that is not the last one
C2_Witness ==
    /\ lastEvent.type = "newReport"
    /\ Len(reports) >= 2
    /\ \E i \in 1..(Len(reports) - 1) : reports[i] = lastEvent.data
    /\ OnNewReport(reports, lastEvent.data) = reports

\* C3: a resolveReport push for an id that no entry of the store has leaves
\* the store, and every other part of the state, exactly as it was.
C3_ResolveUnknownIdNoop ==
    [][ (lastEvent'.type = "resolveReport" /\ ~HasId(reports, lastEvent'.id))
        => /\ reports' = reports
           /\ UNCHANGED <<remark, showModal, selectedReportId, snapshot,
                          subscribed, submitPending, resolvePending>> ]_vars

\* a resolveReport push for an absent id has been applied to a store that
\* holds an unresolved entry
C3_Witness ==
    /\ lastEvent.type = "resolveReport"
    /\ ~HasId(reports, lastEvent.id)
    /\ \E i \in 1..Len(reports) : reports[i].status # "green"

\* C4: a resolveReport push for an id in the store makes the entries with that
\* id green with remark "" and timestamp null, keeps their _id, loop, section
\* and assigned, and leaves every other entry and the length unchanged.
C4_ResolveSetsGreen ==
    [][ lastEvent'.type = "resolveReport"
        => /\ Len(reports') = Len(reports)
           /\ \A i \in 1..Len(reports) :
                IF reports[i]._id = lastEvent'.id
                THEN /\ reports'[i].status = "green"
                     /\ reports'[i].remark = ""
                     /\ reports'[i].timestamp = NULL
                     /\ reports'[i]._id = reports[i]._id
                     /\ reports'[i].loop = reports[i].loop
                     /\ reports'[i].section = reports[i].section
                     /\ reports'[i].assigned = reports[i].assigned
                ELSE reports'[i] = reports[i] ]_vars

\* a resolveReport push has resolved an entry next to an unresolved one
C4_Witness ==
    /\ lastEvent.type = "resolveReport"
    /\ \E i, j \in 1..Len(reports) :
          /\ reports[i]._id = lastEvent.id
          /\ reports[i].status = "green"
          /\ reports[j]._id # lastEvent.id
          /\ reports[j].status = "red"

\* C5: in every reachable store, for every report R, the submit
\* acknowledgment of R and the newReport push of R give the same set of
\* entries and the same board, and the two applied in either order leave
\* exactly one entry with R's id.
C5_AckEqualsPush ==
    \A R \in InReports :
        /\ Range(OnSubmitAck(reports, R)) = Range(OnNewReport(reports, R))
        /\ Project(OnSubmitAck(reports, R)) = Project(OnNewReport(reports, R))
        /\ CountId(OnNewReport(OnSubmitAck(reports, R), R), R._id) = 1
        /\ CountId(OnSubmitAck(OnNewReport(reports, R), R), R._id) = 1

\* C6: the failure of a submit request leaves the store (and the rest of the
\* state) as it is, and the failed request is not replaced by another one.
C6_SubmitFailLeavesStore ==
    [][ lastEvent'.type = "submitFail"
        => /\ reports' = reports
           /\ submitPending' = submitPending - 1
           /\ UNCHANGED <<remark, showModal, selectedReportId, snapshot,
                          subscribed, resolvePending>> ]_vars

\* a submit request has failed over a store that holds entries
C6_Witness ==
    /\ lastEvent.type = "submitFail"
    /\ Len(reports) > 0
    /\ submitPending = 0

\* C7: right after the snapshot is applied, every entry of the store is an
\* entry of the snapshot list and no two entries share a (loop, section).
C7_SnapshotDeduplicated ==
    lastEvent.type = "snapshot"
        => /\ \A i \in 1..Len(reports) : reports[i] \in Range(lastEvent.data)
           /\ NoDupKeys(reports)

\* C8: once the snapshot request has failed, what is rendered differs from
\* what a successfully loaded empty snapshot renders.
C8_SnapshotFailureSurfaced ==
    snapshot = "failed"
        => Render(reports, showModal) # Render(OnSnapshot(reports, <<>>), showModal)

\* C9: confirmResolve(id) followed by Cancel hides the modal, leaves no
\* staged id, leaves the store unchanged and sends no resolve request.
C9_CancelClearsStaged ==
    [][ (lastEvent.type = "confirmResolve" /\ lastEvent'.type = "cancelResolve")
        => /\ showModal' = FALSE
           /\ selectedReportId' = NULL
           /\ reports' = reports
           /\ resolvePending' = resolvePending ]_vars

\* C10: the failure of a resolve request leaves the modal and the staged id
\* as they are (a modal open on the id stays open on the id), leaves the
\* store unchanged and puts no new resolve request in flight.
C10_ResolveFailKeepsPending ==
    [][ lastEvent'.type = "resolveFail"
        => /\ showModal' = showModal
           /\ selectedReportId' = selectedReportId
           /\ (showModal /\ selectedReportId = lastEvent'.id)
                => (showModal' /\ selectedReportId' = lastEvent'.id)
           /\ reports' = reports
           /\ resolvePending' =
                [resolvePending EXCEPT ![lastEvent'.id] = @ - 1] ]_vars

\* a resolve request has failed while the modal is open on its id
C10_Witness ==
    /\ lastEvent.type = "resolveFail"
    /\ showModal
    /\ selectedReportId = lastEvent.id
    /\ resolvePending[lastEvent.id] = 0

\* the confirmation flow the modal state stands for: Idle, or pending on an id
Idle == "Idle"

Flow(show, id) == IF show THEN id ELSE Idle

\* C11 as stated: confirmResolve(id) makes the flow pending on id (also when
\* it was pending already); Cancel, a resolve success and a resolve failure
\* each make it Idle; no other step changes the flow; the flow is always Idle
\* or pending on exactly one id.
C11_FlowMachine ==
    [][ LET before == Flow(showModal, selectedReportId)
            after  == Flow(showModal', selectedReportId')
            e      == lastEvent'.type
        IN  /\ after \in Ids \cup {Idle}
            /\ CASE e = "confirmResolve" -> after = lastEvent'.id
                 [] e \in {"cancelResolve", "resolveAck", "resolveFail"}
                                         -> after = Idle
                 [] OTHER                -> after = before ]_vars

\* C11 amended: as C11, except that a resolve failure leaves the flow as it
\* is (pending on the same id while the modal is open).
C11_FlowMachineAmended ==
    [][ LET before == Flow(showModal, selectedReportId)
            after  == Flow(showModal', selectedReportId')
            e      == lastEvent'.type
        IN  /\ after \in Ids \cup {Idle}
            /\ CASE e = "confirmResolve" -> after = lastEvent'.id
                 [] e \in {"cancelResolve", "resolveAck"} -> after = Idle
                 [] OTHER                -> after = before ]_vars

\* a resolve request for one id has failed while the flow, overwritten by a
\* second confirmResolve, is pending on the other id
C11_Witness ==
    /\ lastEvent.type = "resolveFail"
    /\ Flow(showModal, selectedReportId) \in Ids \ {lastEvent.id}

\* ------------------------------------------------- the dashboard, on its own
MaxProjectStore == 3      \* longest store the dashboard is rendered from

\* a station that productionAreas does not list
OffCatalog == <<"Loop 5", "PAINT">>

ProjectReports ==
    { [_id |-> id, loop |-> k[1], section |-> k[2], status |-> p.status,
       assigned |-> "John Doe", remark |-> p.remark, timestamp |-> p.timestamp] :
         id \in Ids, k \in Stations \cup {OffCatalog}, p \in Payloads }

\* any store content in any order: empty, off-catalog stations, repeated
\* stations, repeated ids
ProjectStores == SeqsUpTo(ProjectReports, MaxProjectStore)

InitProject ==
    /\ reports \in ProjectStores
    /\ remark = ""
    /\ showModal = FALSE
    /\ selectedReportId = NULL
    /\ snapshot = "loaded"
    /\ subscribed = TRUE
    /\ submitPending = 0
    /\ resolvePending = [id \in Ids |-> 0]
    /\ lastEvent = Event("mount", NULL, NoReport)
    /\ cells = <<>>
    /\ diffInSeconds = 0
    /\ ageLabel = <<>>

\* the render of the dashboard div
RenderDashboard ==
    /\ cells' = Project(reports)
    /\ lastEvent' = Event("render", NULL, NoReport)
    /\ UNCHANGED <<reports, remark, showModal, selectedReportId, snapshot,
                   subscribed, submitPending, resolvePending, diffInSeconds,
                   ageLabel>>

SpecProject == InitProject /\ [][RenderDashboard]_vars

\* C12: the rendered dashboard has one group per loop of productionAreas, in
\* declaration order, and in each group exactly one cell per section of that
\* loop, in declaration order, whatever the store holds.
C12_OneCellPerStation ==
    lastEvent.type = "render"
        => /\ Len(cells) = Len(Loops)
           /\ \A g \in 1..Len(Loops) :
                /\ Len(cells[g]) = Len(productionAreas[Loops[g]])
                /\ \A s \in 1..Len(productionAreas[Loops[g]]) :
                      /\ cells[g][s].loop = Loops[g]
                      /\ cells[g][s].section = productionAreas[Loops[g]][s]

\* the dashboard has been rendered from a store with two entries for one
\* station and an entry for a station outside the catalog
C12_Witness ==
    /\ lastEvent.type = "render"
    /\ \E i, j, k \in 1..Len(reports) :
          /\ i # j
          /\ SameKey(reports[i], reports[j])
          /\ <<reports[k].loop, reports[k].section>> = OffCatalog

UniqueIds(store) ==
    \A i, j \in 1..Len(store) : store[i]._id = store[j]._id => i = j

\* C13: a newReport push, a resolveReport push or a submit acknowledgment
\* applied to a store whose ids are pairwise distinct (the empty store, a
\* snapshot with distinct ids, or what such events made of one) gives a store
\* whose ids are pairwise distinct.
C13_IdUniqueness ==
    [][ (/\ UniqueIds(reports)
         /\ lastEvent'.type \in {"newReport", "resolveReport", "submitAck"})
        => UniqueIds(reports') ]_vars

\* a submit acknowledgment has been merged into a loaded snapshot that held
\* its id already, next to another id
C13_Witness ==
    /\ lastEvent.type = "submitAck"
    /\ snapshot = "loaded"
    /\ Len(reports) = 2
    /\ UniqueIds(reports)
    /\ reports[2] = lastEvent.data

\* ------------------------------------------------------ timeAgo, on its own
MaxElapsed == 200000      \* largest elapsed time, in seconds, that is rendered

\* a report time in milliseconds, on a whole second
StampMs == 1000

\* new Date(new Date(t).toLocaleString("en-US", { timeZone: "Asia/Manila" })):
\* the wall clock reading has no milliseconds (the shift of the zone is the
\* same for both readings and cancels in their difference)
ManilaTime(ms) == (ms \div 1000) * 1000

\* timeAgo with <= where the code has <
timeAgoInclusive(timestamp, now) ==
    IF timestamp = 0 THEN <<>>
    ELSE LET d == (ManilaTime(now) - ManilaTime(timestamp)) \div 1000
         IN  IF d <= 60 THEN <<d, "s ago">>
             ELSE IF d <= 3600 THEN <<d \div 60, "m ago">>
             ELSE IF d <= 86400 THEN <<d \div 3600, "hr ago">>
             ELSE <<d \div 86400, "d ago">>

\* timeAgo(timestamp), read at the time now; a label `${n}s ago` is <<n, "s ago">>,
\* the empty label is <<>>, a null timestamp is 0
timeAgo(timestamp, now) ==
    IF timestamp = 0 THEN <<>>
    ELSE LET d == (ManilaTime(now) - ManilaTime(timestamp)) \div 1000
         IN  IF d < 60 THEN <<d, "s ago">>
             ELSE IF d < 3600 THEN <<d \div 60, "m ago">>
             ELSE IF d < 86400 THEN <<d \div 3600, "hr ago">>
             ELSE <<d \div 86400, "d ago">>

InitTimeAgo ==
    /\ reports = <<>>
    /\ remark = ""
    /\ showModal = FALSE
    /\ selectedReportId = NULL
    /\ snapshot = "loaded"
    /\ subscribed = TRUE
    /\ submitPending = 0
    /\ resolvePending = [id \in Ids |-> 0]
    /\ lastEvent = Event("mount", NULL, NoReport)
    /\ cells = <<>>
    /\ diffInSeconds \in 0..MaxElapsed
    /\ ageLabel = <<>>

\* the render of a timestamp-text: timeAgo(report.timestamp), diffInSeconds
\* whole seconds and some milliseconds after the report time
RenderAge ==
    /\ \E ms \in {0, 999} :
          ageLabel' = timeAgo(StampMs, StampMs + diffInSeconds * 1000 + ms)
    /\ lastEvent' = Event("timeAgo", NULL, NoReport)
    /\ UNCHANGED <<reports, remark, showModal, selectedReportId, snapshot,
                   subscribed, submitPending, resolvePending, cells,
                   diffInSeconds>>

SpecTimeAgo == InitTimeAgo /\ [][RenderAge]_vars

\* C14: for d elapsed seconds the label is d "s ago" below 60, floor(d/60)
\* "m ago" below 3600, floor(d/3600) "hr ago" below 86400 and floor(d/86400)
\* "d ago" from there on: 45 gives 45s, 130 gives 2m, 7200 gives 2hr, 200000
\* gives 2d; the label has one number and one unit.
C14_ElapsedLabel ==
    lastEvent.type = "timeAgo"
        => LET d == diffInSeconds
           IN  /\ Len(ageLabel) = 2
               /\ (d < 60) => ageLabel = <<d, "s ago">>
               /\ (60 <= d /\ d < 3600) => ageLabel = <<d \div 60, "m ago">>
               /\ (3600 <= d /\ d < 86400) => ageLabel = <<d \div 3600, "hr ago">>
               /\ (86400 <= d) => ageLabel = <<d \div 86400, "d ago">>
               /\ (d = 45) => ageLabel = <<45, "s ago">>
               /\ (d = 130) => ageLabel = <<2, "m ago">>
               /\ (d = 7200) => ageLabel = <<2, "hr ago">>
               /\ (d = 200000) => ageLabel = <<2, "d ago">>

\* the label of 200000 elapsed seconds has been rendered
C14_Witness ==
    /\ lastEvent.type = "timeAgo"
    /\ diffInSeconds = 200000
    /\ ageLabel = <<2, "d ago">>

\* C15: while the store has only been fed by newReport, resolveReport and
\* submit acknowledgment events, the cell of the station of the report event
\* that arrived last (the most recently arrived report for that station)
\* shows that report's status and remark.
C15_LastWriteWins ==
    (/\ snapshot = "pending"
     /\ lastEvent.type \in {"newReport", "submitAck"})
        => LET R == lastEvent.data
               c == Cell(reports, R.loop, R.section)
           IN  /\ c.status = R.status
               /\ c.remark = IF R.status # "green" THEN R.remark ELSE ""

\* C16: when the snapshot response is applied, every entry that the pushes
\* received since the request was issued have put in the store is still in
\* the store.
C16_NoStaleOverwrite ==
    [][ lastEvent'.type = "snapshot" => Range(reports) \subseteq Range(reports') ]_vars

\* the resolve confirmation where every request in flight is answered
SpecResolveFair ==
    /\ SpecResolve
    /\ WF_vars(ResolveAck)
    /\ WF_vars(ResolveFail)

IdResolved(store, id) ==
    \A i \in 1..Len(store) :
        store[i]._id = id
            => /\ store[i].status = "green"
               /\ store[i].remark = ""
               /\ store[i].timestamp = NULL

\* C17: once a resolve request for an id of the store has succeeded, the
\* store eventually holds the entries of that id green, with remark "" and
\* timestamp null, also when no resolveReport push is delivered.
C17_ResolveConverges ==
    \A id \in Ids :
        (lastEvent = Event("resolveAck", id, NoReport) /\ HasId(reports, id))
            ~> IdResolved(reports, id)

IdsOf(store) == { store[i]._id : i \in 1..Len(store) }

C19_LateAckKeepsNewer ==
    [][ (/\ lastEvent'.type = "resolveAck"
         /\ showModal
         /\ selectedReportId # lastEvent'.id)
        => (showModal' /\ selectedReportId' = selectedReportId) ]_vars

\* the store, its requests and the teardown: the user's part is sendReport
\* and the resolve of a cell
NextTeardown ==
    \/ SnapshotLoaded
    \/ SnapshotFailed
    \/ NewReportPush
    \/ ResolveReportPush
    \/ SendReport
    \/ SubmitAck
    \/ SubmitFail
    \/ ConfirmResolve
    \/ ResolveSend
    \/ ResolveAck
    \/ ResolveFail
    \/ Unmount

SpecTeardown == Init /\ [][NextTeardown]_vars

\* C20: the teardown changes nothing but the subscription (the snapshot, the
\* submits and the resolves in flight stay in flight); after it no newReport
\* or resolveReport handler runs and only the answers to requests change the
\* store; the answer to every request still in flight can still be processed.
C20_TeardownOnlyUnsubscribes ==
    /\ [][ /\ lastEvent'.type = "unmount"
              => UNCHANGED <<reports, remark, showModal, selectedReportId,
                             snapshot, submitPending, resolvePending>>
           /\ ~subscribed
              => /\ ~subscribed'
                 /\ lastEvent'.type \notin {"newReport", "resolveReport"}
                 /\ reports' # reports
                      => lastEvent'.type \in {"snapshot", "submitAck"} ]_vars
    /\ [](~subscribed
            => /\ snapshot = "pending" => ENABLED SnapshotLoaded
               /\ submitPending > 0 => ENABLED SubmitAck
               /\ ResolveInFlight > 0 => ENABLED ResolveAck)

\* after the teardown the answer to a submit sent before it has been merged
\* into the store, while a resolve request is still in flight
C20_Witness ==
    /\ ~subscribed
    /\ lastEvent.type = "submitAck"
    /\ reports # <<>>
    /\ ResolveInFlight > 0

====
